---------------------------- MODULE Spec2Model ----------------------------
(***************************************************************************)
(* State-machine model of node::NodeMainInstance                           *)
(* (src/src/node_main_instance.cc): the two constructors, Dispose(), the   *)
(* destructor, Run(), the two-argument Run (the execution driver) and     *)
(* CreateMainEnvironment().                                                *)
(*                                                                         *)
(* One process holds one NodeMainInstance.  The constructors, Dispose()    *)
(* and the destructor are single actions.  Run() is called by the threads  *)
(* of Threads and is cut at the calls it makes, so that the v8::Locker     *)
(* taken at its first line is what serialises the threads.  The embedder   *)
(* may also call CreateMainEnvironment and the two-argument Run directly,  *)
(* with an exit code variable of its own.                                  *)
(*                                                                         *)
(* Collaborators (V8, the platform, the environment factory, the event     *)
(* loop) are modelled by their observable results: each call that can fail *)
(* returns either outcome.                                                 *)
(***************************************************************************)
EXTENDS Naturals, Sequences, FiniteSets

(* ---------------------------- bounds ---------------------------------- *)

\* number of threads that may call Run() on the instance
NumThreads == 2
\* number of Run() calls, and of direct calls of CreateMainEnvironment and
\* of the two-argument Run, started in one behaviour
MaxRuns == 2
\* number of Dispose() calls in one behaviour
MaxDisposeCalls == 2
\* number of platform tasks that may be pending for the isolate
MaxTasks == 1

Threads == 1..NumThreads

(* --------------------------- values ----------------------------------- *)

NULL == "nullptr"
NoThread == 0

\* ExitCode enumerators used by the source, and one further defined code
kNoFailure == "kNoFailure"
kGenericUserError == "kGenericUserError"
kAbort == "kAbort"
ExitCodes == {kNoFailure, kGenericUserError, kAbort}

\* v8::Maybe<ExitCode> as returned by SpinEventLoopInternal
Nothing == "Nothing"
MaybeExitCodes == ExitCodes \cup {Nothing}

\* Maybe<T>::FromMaybe(default)
FromMaybe(m, default) == IF m = Nothing THEN default ELSE m

VARIABLES
  proc,                     \* "running", "aborted" (a CHECK failed), "crashed" (undefined behaviour ended in a fault)
  mgr,                      \* lifetime of the NodeMainInstance object: "none", "live", "destroyed"
  ctor,                     \* which constructor was entered: "none", "own", "borrow"
  array_buffer_allocator_,  \* member: NULL or "allocator"
  isolate_,                 \* member: NULL or "isolate"
  isolate_data_,            \* member: NULL or "isolate_data"
  isolate_params_,          \* member: NULL or "params"
  params_allocator,         \* isolate_params_->array_buffer_allocator
  snapshot_data_,           \* member: NULL or "snapshot"
  max_young_gen_size_set,   \* isolate_data_->max_young_gen_size was assigned
  handlers_installed,       \* SetIsolateMiscHandlers ran on the isolate
  isolate_state,            \* the engine instance: "none", "live", "disposed"
  registered,               \* the isolate is registered with the platform
  pending_tasks,            \* platform tasks pending for the isolate
  crypto_initialized,       \* crypto::InitCryptoOnce latch
  heap_tracking,            \* StartTrackingHeapObjects was called
  calls,                    \* number of calls made to each collaborator function
  locker,                   \* thread holding v8::Locker on the isolate, or NoThread
  pc,                       \* per thread: position inside Run()
  exit_code,                \* per thread: the local exit_code of Run()
  context,                  \* per thread: the local context of CreateMainEnvironment
  env,                      \* per thread: the local env (NULL or "env")
  env_context,              \* per thread: the context argument CreateEnvironment received
  result,                   \* per thread: value returned by the last Run(), or "none"
  trace,                    \* per thread: the steps of the current Run(), in order
  runs_started,             \* calls of Run(), CreateMainEnvironment and the two-argument Run entered so far
  dispose_calls,            \* Dispose() calls made so far
  dtor_trace,               \* the steps the destructor performed, in order
  isolate_from_snapshot,    \* NewIsolate was given a snapshot and restored the isolate from it
  entry,                    \* per thread: the public function it is inside: "none", "Run", "CreateMainEnvironment", "Driver"
  exit_code_in,             \* per thread: value of the exit code variable when that function was entered
  loop_result               \* per thread: what SpinEventLoopInternal returned in this call, or "none"

vars == <<proc, mgr, ctor, array_buffer_allocator_, isolate_, isolate_data_,
          isolate_params_, params_allocator, snapshot_data_,
          max_young_gen_size_set, handlers_installed, isolate_state,
          registered, pending_tasks, crypto_initialized, heap_tracking, calls,
          locker, pc, exit_code, context, env, env_context, result, trace,
          runs_started, dispose_calls, dtor_trace, isolate_from_snapshot,
          entry, exit_code_in, loop_result>>

memberVars == <<array_buffer_allocator_, isolate_, isolate_data_,
                isolate_params_, params_allocator, snapshot_data_,
                max_young_gen_size_set, isolate_from_snapshot>>

callVars == <<entry, exit_code_in, loop_result>>

threadVars == <<locker, pc, exit_code, context, env, env_context, result,
                trace, runs_started, callVars>>

CallNames == {"NewIsolate", "CreateIsolateData", "SetIsolateMiscHandlers",
              "DrainTasks", "UnregisterIsolate", "IsolateDispose",
              "NewContext", "CreateEnvironment", "FreeEnvironment",
              "LoadEnvironment", "SpinEventLoopInternal"}

Called(c, name) == [c EXCEPT ![name] = @ + 1]

Init ==
  /\ proc = "running"
  /\ mgr = "none"
  /\ ctor = "none"
  /\ array_buffer_allocator_ = NULL
  /\ isolate_ = NULL
  /\ isolate_data_ = NULL
  /\ isolate_params_ = NULL
  /\ params_allocator = NULL
  /\ snapshot_data_ = NULL
  /\ max_young_gen_size_set = FALSE
  /\ handlers_installed = FALSE
  /\ isolate_state = "none"
  /\ registered = FALSE
  /\ pending_tasks = 0
  /\ crypto_initialized = FALSE
  /\ heap_tracking = FALSE
  /\ calls = [n \in CallNames |-> 0]
  /\ locker = NoThread
  /\ pc = [t \in Threads |-> "idle"]
  /\ exit_code = [t \in Threads |-> kNoFailure]
  /\ context = [t \in Threads |-> "none"]
  /\ env = [t \in Threads |-> NULL]
  /\ env_context = [t \in Threads |-> "none"]
  /\ result = [t \in Threads |-> "none"]
  /\ trace = [t \in Threads |-> <<>>]
  /\ runs_started = 0
  /\ dispose_calls = 0
  /\ dtor_trace = <<>>
  /\ isolate_from_snapshot = FALSE
  /\ entry = [t \in Threads |-> "none"]
  /\ exit_code_in = [t \in Threads |-> kNoFailure]
  /\ loop_result = [t \in Threads |-> "none"]

(* ------------------------- constructors ------------------------------- *)

\* the borrowing constructor also allocating CreateParams
BorrowCtorParams_Allocated == "params"

\* isolate_params_ after the member initialisers of the borrowing
\* constructor: the unique_ptr is not named there and stays null
BorrowCtorParams == NULL

\* NodeMainInstance(Isolate*, ...): adopts the caller's isolate.  The
\* constructor has no null check.  With a null isolate the IsolateData
\* constructor and SetIsolateMiscHandlers receive a null Isolate*, which is
\* undefined behaviour: the build may fault in either call or run through.
BorrowCtor(isolate, ub) ==
  /\ proc = "running" /\ mgr = "none" /\ ctor = "none"
  /\ ctor' = "borrow"
  /\ array_buffer_allocator_' = NULL
  /\ isolate_' = isolate
  /\ isolate_params_' = BorrowCtorParams
  /\ params_allocator' = NULL
  /\ snapshot_data_' = NULL
  /\ isolate_from_snapshot' = FALSE
  /\ max_young_gen_size_set' = FALSE
  \* the caller's isolate exists, is live and registered by its owner
  /\ isolate_state' = IF isolate = NULL THEN "none" ELSE "live"
  /\ registered' = (isolate # NULL)
  /\ IF isolate # NULL \/ ub = "runs_through"
       THEN /\ isolate_data_' = "isolate_data"
            /\ handlers_installed' = (isolate # NULL)
            /\ calls' = Called(Called(calls, "CreateIsolateData"),
                               "SetIsolateMiscHandlers")
            /\ mgr' = "live"
            /\ proc' = "running"
       ELSE IF ub = "fault_in_handlers"
       THEN /\ isolate_data_' = "isolate_data"
            /\ handlers_installed' = FALSE
            /\ calls' = Called(Called(calls, "CreateIsolateData"),
                               "SetIsolateMiscHandlers")
            /\ mgr' = "none"
            /\ proc' = "crashed"
       ELSE /\ isolate_data_' = NULL
            /\ handlers_installed' = FALSE
            /\ calls' = Called(calls, "CreateIsolateData")
            /\ mgr' = "none"
            /\ proc' = "crashed"
  /\ UNCHANGED <<pending_tasks, crypto_initialized, heap_tracking,
                 threadVars, dispose_calls, dtor_trace>>

\* isolate_params_ after the member initialisers of the owning constructor
OwnCtorParams == "params"

\* the owning constructor leaving snapshot_data_ null
OwnCtorSnapshotData_Dropped(snapshot_data) == NULL

\* snapshot_data_(snapshot_data) in the member initialisers
OwnCtorSnapshotData(snapshot_data) == snapshot_data

\* the owning constructor without its CHECK on the new isolate
IsolateCheckPasses_Missing(isolate) == TRUE

\* CHECK_NOT_NULL(isolate_)
IsolateCheckPasses(isolate) == isolate # NULL

\* NodeMainInstance(const SnapshotData*, ...): creates and owns the isolate.
\* snapshot_data->AsEmbedderWrapper() is a member call through the pointer
\* the caller passed; with a null pointer that is undefined behaviour: the
\* build may fault there or run through.
OwnCtor(snapshot_data, new_isolate, ub) ==
  /\ proc = "running" /\ mgr = "none" /\ ctor = "none"
  /\ ctor' = "own"
  /\ array_buffer_allocator_' = "allocator"
  /\ isolate_params_' = OwnCtorParams
  /\ snapshot_data_' = OwnCtorSnapshotData(snapshot_data)
  \* NewIsolate(isolate_params_.get(), event_loop, platform, snapshot_data)
  /\ isolate_from_snapshot' = (new_isolate # NULL /\ snapshot_data # NULL)
  /\ params_allocator' = "allocator"
  /\ isolate_' = new_isolate
  /\ isolate_state' = IF new_isolate = NULL THEN "none" ELSE "live"
  /\ registered' = (new_isolate # NULL)
  /\ UNCHANGED handlers_installed
  /\ IF ~IsolateCheckPasses(new_isolate)
       THEN /\ proc' = "aborted"
            /\ mgr' = "none"
            /\ isolate_data_' = NULL
            /\ max_young_gen_size_set' = FALSE
            /\ calls' = Called(calls, "NewIsolate")
       ELSE IF snapshot_data = NULL /\ ub = "fault"
       THEN /\ proc' = "crashed"
            /\ mgr' = "none"
            /\ isolate_data_' = NULL
            /\ max_young_gen_size_set' = FALSE
            /\ calls' = Called(calls, "NewIsolate")
       ELSE /\ proc' = "running"
            /\ mgr' = "live"
            /\ isolate_data_' = "isolate_data"
            /\ max_young_gen_size_set' = TRUE
            /\ calls' = Called(Called(calls, "NewIsolate"),
                               "CreateIsolateData")
  /\ UNCHANGED <<pending_tasks, crypto_initialized, heap_tracking,
                 threadVars, dispose_calls, dtor_trace>>

(* ------------------------- platform tasks ----------------------------- *)

\* The platform receives a task for the isolate (posted by the embedder or
\* by running program code); DrainTasks is what runs them.
PostTask ==
  /\ proc = "running"
  /\ isolate_state = "live"
  /\ pending_tasks < MaxTasks
  /\ pending_tasks' = pending_tasks + 1
  /\ UNCHANGED <<proc, mgr, ctor, memberVars, handlers_installed,
                 isolate_state, registered, crypto_initialized, heap_tracking,
                 calls, threadVars, dispose_calls, dtor_trace>>

\* MultiIsolatePlatform::DrainTasks(isolate): runs every task pending for
\* that isolate; a null isolate has none
DrainTasks(isolate, n) == IF isolate = NULL THEN n ELSE 0

(* ----------------------------- Dispose -------------------------------- *)

\* Dispose() without its CHECK
DisposeCheckPasses_Missing == TRUE

\* Dispose() with the CHECK inverted (CHECK_NOT_NULL)
DisposeCheckPasses_Inverted == isolate_params_ # NULL

\* CHECK_NULL(isolate_params_)
DisposeCheckPasses == isolate_params_ = NULL

\* NodeMainInstance::Dispose()
Dispose ==
  /\ proc = "running" /\ mgr = "live"
  /\ dispose_calls < MaxDisposeCalls
  /\ dispose_calls' = dispose_calls + 1
  /\ IF DisposeCheckPasses
       THEN /\ pending_tasks' = DrainTasks(isolate_, pending_tasks)
            /\ calls' = Called(calls, "DrainTasks")
            /\ UNCHANGED proc
       ELSE /\ proc' = "aborted"
            /\ UNCHANGED <<pending_tasks, calls>>
  /\ UNCHANGED <<mgr, ctor, memberVars, handlers_installed, isolate_state,
                 registered, crypto_initialized, heap_tracking, threadVars,
                 dtor_trace>>

(* ---------------------------- destructor ------------------------------ *)

\* the destructor with its test inverted
DtorReturnsEarly_Inverted == isolate_params_ # NULL

\* the destructor without its early return
DtorReturnsEarly_Missing == FALSE

\* if (isolate_params_ == nullptr) return;
DtorReturnsEarly == isolate_params_ = NULL

\* the destructor disposing the isolate before unregistering it
DtorOwningSteps_DisposeFirst ==
  <<"IsolateDispose", "UnregisterIsolate", "release_members">>

\* the steps of the destructor of an owning manager: the body
\* (UnregisterIsolate, isolate_->Dispose()), then the members are destroyed
DtorOwningSteps ==
  <<"UnregisterIsolate", "IsolateDispose", "release_members">>

\* NodeMainInstance::~NodeMainInstance(), followed by the destruction of the
\* members.  The caller destroys the object only when no thread is inside
\* Run().
Destroy ==
  /\ proc = "running" /\ mgr = "live"
  /\ \A t \in Threads : pc[t] = "idle"
  /\ mgr' = "destroyed"
  /\ IF DtorReturnsEarly
       THEN /\ dtor_trace' = <<"release_members">>
            /\ UNCHANGED <<registered, isolate_state, calls>>
       ELSE /\ dtor_trace' = DtorOwningSteps
            /\ registered' = FALSE
            /\ isolate_state' = "disposed"
            /\ calls' = Called(Called(calls, "UnregisterIsolate"),
                               "IsolateDispose")
  \* unique_ptr/shared_ptr members release what they hold
  /\ array_buffer_allocator_' = NULL
  /\ isolate_data_' = NULL
  /\ isolate_params_' = NULL
  /\ params_allocator' = NULL
  /\ UNCHANGED <<proc, ctor, isolate_, snapshot_data_, max_young_gen_size_set,
                 isolate_from_snapshot, handlers_installed, pending_tasks, crypto_initialized,
                 heap_tracking, threadVars, dispose_calls>>

(* ------------------------------- Run ---------------------------------- *)

\* Run() without mutual exclusion on the isolate
LockerCanAcquire_NotExclusive(t) == TRUE

\* v8::Locker(isolate_): blocks until no other thread holds the isolate
LockerCanAcquire(t) == locker = NoThread

\* Run(), lines "Locker locker" to "ExitCode exit_code = kNoFailure".
\* On an object holding a null isolate the Locker constructor receives a
\* null Isolate*, which is undefined behaviour: the build may fault there
\* or run through.
RunLock(t, ub) ==
  /\ proc = "running" /\ mgr = "live"
  /\ pc[t] = "idle"
  /\ runs_started < MaxRuns
  /\ LockerCanAcquire(t)
  /\ runs_started' = runs_started + 1
  /\ IF isolate_ = NULL /\ ub = "fault"
       THEN /\ proc' = "crashed"
            /\ UNCHANGED <<locker, pc, exit_code, context, env, env_context,
                           result, trace, entry, exit_code_in, loop_result>>
       ELSE /\ locker' = t
            /\ entry' = [entry EXCEPT ![t] = "Run"]
            /\ exit_code' = [exit_code EXCEPT ![t] = kNoFailure]
            /\ exit_code_in' = [exit_code_in EXCEPT ![t] = kNoFailure]
            /\ loop_result' = [loop_result EXCEPT ![t] = "none"]
            /\ context' = [context EXCEPT ![t] = "none"]
            /\ env' = [env EXCEPT ![t] = NULL]
            /\ env_context' = [env_context EXCEPT ![t] = "none"]
            /\ result' = [result EXCEPT ![t] = "none"]
            /\ trace' = [trace EXCEPT
                           ![t] = <<"Locker", "IsolateScope", "HandleScope">>]
            /\ pc' = [pc EXCEPT ![t] = "create_env"]
            /\ UNCHANGED proc
  /\ UNCHANGED <<mgr, ctor, memberVars, handlers_installed, isolate_state,
                 registered, pending_tasks, crypto_initialized, heap_tracking,
                 calls, dispose_calls, dtor_trace>>

\* CreateMainEnvironment() with the branch inverted
UseSnapshotPath_Inverted == snapshot_data_ = NULL

\* if (snapshot_data_ != nullptr)
UseSnapshotPath == snapshot_data_ # NULL

\* CreateMainEnvironment(), from its first line to the branch on
\* snapshot_data_
CreateMainEnvironmentEnter(t, track_heap_objects) ==
  /\ proc = "running"
  /\ pc[t] = "create_env"
  /\ exit_code' = [exit_code EXCEPT ![t] = kNoFailure]
  /\ heap_tracking' = (heap_tracking \/ track_heap_objects)
  /\ trace' = [trace EXCEPT ![t] = Append(@, "CreateMainEnvironment")]
  /\ pc' = [pc EXCEPT ![t] = IF UseSnapshotPath THEN "cme_snapshot"
                                                ELSE "cme_new_context"]
  /\ UNCHANGED <<proc, mgr, ctor, memberVars, handlers_installed,
                 isolate_state, registered, pending_tasks, crypto_initialized,
                 calls, locker, context, env, env_context, result,
                 runs_started, dispose_calls, dtor_trace>>
  /\ UNCHANGED callVars

\* CreateMainEnvironment(), snapshot branch: CreateEnvironment with an empty
\* Local<Context>, then crypto::InitCryptoOnce; e is what CreateEnvironment
\* returned
CreateEnvironmentFromSnapshot(t, e) ==
  /\ proc = "running"
  /\ pc[t] = "cme_snapshot"
  /\ env' = [env EXCEPT ![t] = e]
  /\ env_context' = [env_context EXCEPT ![t] = "empty"]
  /\ crypto_initialized' = TRUE
  /\ calls' = Called(calls, "CreateEnvironment")
  /\ trace' = [trace EXCEPT ![t] = Append(@, "CreateEnvironment")]
  /\ pc' = [pc EXCEPT ![t] = "check_env"]
  /\ UNCHANGED <<proc, mgr, ctor, memberVars, handlers_installed,
                 isolate_state, registered, pending_tasks, heap_tracking,
                 locker, exit_code, context, result, runs_started,
                 dispose_calls, dtor_trace>>
  /\ UNCHANGED callVars

\* CreateMainEnvironment() without the CHECK on the new context
ContextCheckPasses_Missing(c) == TRUE

\* CHECK(!context.IsEmpty())
ContextCheckPasses(c) == c # "empty"

\* CreateMainEnvironment(), fresh branch: NewContext and
\* CHECK(!context.IsEmpty()); c is what NewContext returned
NewContextChecked(t, c) ==
  /\ proc = "running"
  /\ pc[t] = "cme_new_context"
  /\ context' = [context EXCEPT ![t] = c]
  /\ calls' = Called(calls, "NewContext")
  /\ trace' = [trace EXCEPT ![t] = Append(@, "NewContext")]
  /\ IF ContextCheckPasses(c)
       THEN pc' = [pc EXCEPT ![t] = "cme_fresh_env"] /\ UNCHANGED proc
       ELSE proc' = "aborted" /\ UNCHANGED pc
  /\ UNCHANGED <<mgr, ctor, memberVars, handlers_installed, isolate_state,
                 registered, pending_tasks, crypto_initialized, heap_tracking,
                 locker, exit_code, env, env_context, result, runs_started,
                 dispose_calls, dtor_trace>>
  /\ UNCHANGED callVars

\* CreateMainEnvironment(), fresh branch: Context::Scope on the new context
\* and CreateEnvironment with it; e is what CreateEnvironment returned
CreateEnvironmentFresh(t, e) ==
  /\ proc = "running"
  /\ pc[t] = "cme_fresh_env"
  /\ env' = [env EXCEPT ![t] = e]
  /\ env_context' = [env_context EXCEPT ![t] = context[t]]
  /\ calls' = Called(calls, "CreateEnvironment")
  /\ trace' = [trace EXCEPT
                 ![t] = Append(Append(@, "ContextScope"), "CreateEnvironment")]
  /\ pc' = [pc EXCEPT ![t] = "check_env"]
  /\ UNCHANGED <<proc, mgr, ctor, memberVars, handlers_installed,
                 isolate_state, registered, pending_tasks, crypto_initialized,
                 heap_tracking, locker, exit_code, context, result,
                 runs_started, dispose_calls, dtor_trace>>
  /\ UNCHANGED callVars

\* Run() without its CHECK on the environment
EnvCheckPasses_Missing(e) == TRUE

\* CHECK_NOT_NULL(env)
EnvCheckPasses(e) == e # NULL

\* Run() calling the driver without entering the environment's context
\* scope
RunCheckEnv_NoContextScope(t) ==
  /\ proc = "running"
  /\ pc[t] = "check_env"
  /\ entry[t] = "Run"
  /\ IF EnvCheckPasses(env[t])
       THEN /\ pc' = [pc EXCEPT ![t] = "driver"]
            /\ UNCHANGED <<proc, trace>>
       ELSE proc' = "aborted" /\ UNCHANGED <<pc, trace>>
  /\ UNCHANGED <<mgr, ctor, memberVars, handlers_installed, isolate_state,
                 registered, pending_tasks, crypto_initialized, heap_tracking,
                 calls, locker, exit_code, context, env, env_context, result,
                 runs_started, dispose_calls, dtor_trace>>
  /\ UNCHANGED callVars

\* Run(): CHECK_NOT_NULL(env) and Context::Scope on env->context()
RunCheckEnv(t) ==
  /\ proc = "running"
  /\ pc[t] = "check_env"
  /\ entry[t] = "Run"
  /\ IF EnvCheckPasses(env[t])
       THEN /\ pc' = [pc EXCEPT ![t] = "driver"]
            /\ trace' = [trace EXCEPT ![t] = Append(@, "EnvContextScope")]
            /\ UNCHANGED proc
       ELSE proc' = "aborted" /\ UNCHANGED <<pc, trace>>
  /\ UNCHANGED <<mgr, ctor, memberVars, handlers_installed, isolate_state,
                 registered, pending_tasks, crypto_initialized, heap_tracking,
                 calls, locker, exit_code, context, env, env_context, result,
                 runs_started, dispose_calls, dtor_trace>>
  /\ UNCHANGED callVars

\* the driver running whatever the incoming exit code is
DriverShouldRun_Always(ec) == TRUE

\* the driver with its test inverted
DriverShouldRun_Inverted(ec) == ec # kNoFailure

\* if (*exit_code == ExitCode::kNoFailure)
DriverShouldRun(ec) == ec = kNoFailure

\* Run(ExitCode*, Environment*): the test of the incoming exit code and
\* LoadEnvironment
DriverLoad(t) ==
  /\ proc = "running"
  /\ pc[t] = "driver"
  /\ IF DriverShouldRun(exit_code[t])
       THEN /\ calls' = Called(calls, "LoadEnvironment")
            /\ trace' = [trace EXCEPT ![t] = Append(@, "LoadEnvironment")]
            /\ pc' = [pc EXCEPT ![t] = "spin"]
       ELSE /\ pc' = [pc EXCEPT ![t] = "return"]
            /\ UNCHANGED <<calls, trace>>
  /\ UNCHANGED <<proc, mgr, ctor, memberVars, handlers_installed,
                 isolate_state, registered, pending_tasks, crypto_initialized,
                 heap_tracking, locker, exit_code, context, env, env_context,
                 result, runs_started, dispose_calls, dtor_trace>>
  /\ UNCHANGED callVars

\* the driver defaulting to no-failure when the loop reports no code
SpinDefault_NoFailure == kNoFailure

\* the argument of FromMaybe: the code used when the loop reports none
SpinDefault == kGenericUserError

\* Run(ExitCode*, Environment*): SpinEventLoopInternal and the assignment of
\* its result; m is what the event loop returned
DriverSpin(t, m) ==
  /\ proc = "running"
  /\ pc[t] = "spin"
  /\ exit_code' = [exit_code EXCEPT ![t] = FromMaybe(m, SpinDefault)]
  /\ calls' = Called(calls, "SpinEventLoopInternal")
  /\ trace' = [trace EXCEPT ![t] = Append(@, "SpinEventLoopInternal")]
  /\ pc' = [pc EXCEPT ![t] = "return"]
  /\ UNCHANGED <<proc, mgr, ctor, memberVars, handlers_installed,
                 isolate_state, registered, pending_tasks, crypto_initialized,
                 heap_tracking, locker, context, env, env_context, result,
                 runs_started, dispose_calls, dtor_trace>>
  /\ loop_result' = [loop_result EXCEPT ![t] = m]
  /\ UNCHANGED <<entry, exit_code_in>>

\* an environment that is not freed when its holder goes out of scope
ReleasedEnv_Leaked(e) == e

\* DeleteFnPtr<Environment, FreeEnvironment> going out of scope: the
\* environment is freed and the holder is gone
ReleasedEnv(e) == NULL

\* Run(): return exit_code; the locals go out of scope in reverse order, so
\* env is freed (FreeEnvironment) before the Locker is released
RunReturn(t) ==
  /\ proc = "running"
  /\ pc[t] = "return"
  /\ entry[t] = "Run"
  /\ result' = [result EXCEPT ![t] = exit_code[t]]
  /\ env' = [env EXCEPT ![t] = ReleasedEnv(env[t])]
  /\ calls' = Called(calls, "FreeEnvironment")
  /\ trace' = [trace EXCEPT
                 ![t] = Append(Append(@, "FreeEnvironment"), "Unlock")]
  /\ locker' = NoThread
  /\ pc' = [pc EXCEPT ![t] = "idle"]
  /\ entry' = [entry EXCEPT ![t] = "none"]
  \* exit_code is gone with the call; trace, context and env_context keep
  \* the record of the finished call until the next one starts
  /\ exit_code' = [exit_code EXCEPT ![t] = kNoFailure]
  /\ exit_code_in' = [exit_code_in EXCEPT ![t] = kNoFailure]
  /\ loop_result' = [loop_result EXCEPT ![t] = "none"]
  /\ UNCHANGED <<proc, mgr, ctor, memberVars, handlers_installed,
                 isolate_state, registered, pending_tasks, crypto_initialized,
                 heap_tracking, context, env_context, runs_started,
                 dispose_calls, dtor_trace>>

(* ----------------- direct calls by the embedder ----------------------- *)

\* The embedder calls CreateMainEnvironment(&ec) itself, with its exit code
\* variable holding ec.  The embedder holds the v8::Locker on the isolate
\* around the call and for as long as it keeps the environment, as V8
\* requires of any thread that uses the isolate.
CallCreateMainEnvironment(t, ec) ==
  /\ proc = "running" /\ mgr = "live"
  /\ isolate_ # NULL
  /\ pc[t] = "idle"
  /\ runs_started < MaxRuns
  /\ LockerCanAcquire(t)
  /\ runs_started' = runs_started + 1
  /\ locker' = t
  /\ entry' = [entry EXCEPT ![t] = "CreateMainEnvironment"]
  /\ exit_code' = [exit_code EXCEPT ![t] = ec]
  /\ exit_code_in' = [exit_code_in EXCEPT ![t] = ec]
  /\ loop_result' = [loop_result EXCEPT ![t] = "none"]
  /\ context' = [context EXCEPT ![t] = "none"]
  /\ env' = [env EXCEPT ![t] = NULL]
  /\ env_context' = [env_context EXCEPT ![t] = "none"]
  /\ trace' = [trace EXCEPT ![t] = <<>>]
  /\ pc' = [pc EXCEPT ![t] = "create_env"]
  /\ UNCHANGED <<proc, mgr, ctor, memberVars, handlers_installed,
                 isolate_state, registered, pending_tasks, crypto_initialized,
                 heap_tracking, calls, result, dispose_calls, dtor_trace>>

\* CreateMainEnvironment(): return env, to the embedder that called it
CreateMainEnvironmentReturn(t) ==
  /\ proc = "running"
  /\ pc[t] = "check_env"
  /\ entry[t] = "CreateMainEnvironment"
  /\ entry' = [entry EXCEPT ![t] = "none"]
  /\ pc' = [pc EXCEPT ![t] = "caller"]
  /\ UNCHANGED <<proc, mgr, ctor, memberVars, handlers_installed,
                 isolate_state, registered, pending_tasks, crypto_initialized,
                 heap_tracking, calls, locker, exit_code, context, env,
                 env_context, result, trace, runs_started, dispose_calls,
                 dtor_trace, exit_code_in, loop_result>>

\* The embedder calls Run(&ec, env) itself with the environment it holds
\* and its exit code variable holding ec.
CallDriver(t, ec) ==
  /\ proc = "running" /\ mgr = "live"
  /\ pc[t] = "caller"
  /\ env[t] # NULL
  /\ runs_started < MaxRuns
  /\ runs_started' = runs_started + 1
  /\ entry' = [entry EXCEPT ![t] = "Driver"]
  /\ exit_code' = [exit_code EXCEPT ![t] = ec]
  /\ exit_code_in' = [exit_code_in EXCEPT ![t] = ec]
  /\ loop_result' = [loop_result EXCEPT ![t] = "none"]
  /\ trace' = [trace EXCEPT ![t] = <<>>]
  /\ pc' = [pc EXCEPT ![t] = "driver"]
  /\ UNCHANGED <<proc, mgr, ctor, memberVars, handlers_installed,
                 isolate_state, registered, pending_tasks, crypto_initialized,
                 heap_tracking, calls, locker, context, env, env_context,
                 result, dispose_calls, dtor_trace>>

\* Run(ExitCode*, Environment*): return, to the embedder that called it
DriverReturn(t) ==
  /\ proc = "running"
  /\ pc[t] = "return"
  /\ entry[t] = "Driver"
  /\ entry' = [entry EXCEPT ![t] = "none"]
  /\ pc' = [pc EXCEPT ![t] = "caller"]
  /\ UNCHANGED <<proc, mgr, ctor, memberVars, handlers_installed,
                 isolate_state, registered, pending_tasks, crypto_initialized,
                 heap_tracking, calls, locker, exit_code, context, env,
                 env_context, result, trace, runs_started, dispose_calls,
                 dtor_trace, exit_code_in, loop_result>>

\* The embedder lets go of the DeleteFnPtr it received (FreeEnvironment if
\* it is non-null) and then of its Locker.
CallerRelease(t) ==
  /\ proc = "running"
  /\ pc[t] = "caller"
  /\ env' = [env EXCEPT ![t] = ReleasedEnv(env[t])]
  /\ calls' = IF env[t] = NULL THEN calls ELSE Called(calls, "FreeEnvironment")
  /\ locker' = NoThread
  /\ pc' = [pc EXCEPT ![t] = "idle"]
  \* the embedder's locals of the call are gone
  /\ exit_code' = [exit_code EXCEPT ![t] = kNoFailure]
  /\ exit_code_in' = [exit_code_in EXCEPT ![t] = kNoFailure]
  /\ context' = [context EXCEPT ![t] = "none"]
  /\ env_context' = [env_context EXCEPT ![t] = "none"]
  /\ loop_result' = [loop_result EXCEPT ![t] = "none"]
  /\ trace' = [trace EXCEPT ![t] = <<>>]
  /\ UNCHANGED <<proc, mgr, ctor, memberVars, handlers_installed,
                 isolate_state, registered, pending_tasks, crypto_initialized,
                 heap_tracking, result, runs_started, dispose_calls,
                 dtor_trace, entry>>

(* ------------------------- specification ------------------------------ *)

Pointers(x) == {NULL, x}
UbOutcomes == {"fault", "runs_through"}
BorrowUbOutcomes == {"fault_in_isolate_data", "fault_in_handlers",
                     "runs_through"}

Next ==
  \/ \E i \in Pointers("isolate"), ub \in BorrowUbOutcomes : BorrowCtor(i, ub)
  \/ \E sd \in Pointers("snapshot"), ni \in Pointers("isolate"),
        ub \in UbOutcomes : OwnCtor(sd, ni, ub)
  \/ PostTask
  \/ Dispose
  \/ Destroy
  \/ \E t \in Threads, ub \in UbOutcomes : RunLock(t, ub)
  \/ \E t \in Threads, th \in BOOLEAN : CreateMainEnvironmentEnter(t, th)
  \/ \E t \in Threads, e \in Pointers("env") :
        CreateEnvironmentFromSnapshot(t, e)
  \/ \E t \in Threads, c \in {"empty", "ctx"} : NewContextChecked(t, c)
  \/ \E t \in Threads, e \in Pointers("env") : CreateEnvironmentFresh(t, e)
  \/ \E t \in Threads : RunCheckEnv(t)
  \/ \E t \in Threads : DriverLoad(t)
  \/ \E t \in Threads, m \in MaybeExitCodes : DriverSpin(t, m)
  \/ \E t \in Threads : RunReturn(t)
  \/ \E t \in Threads, ec \in ExitCodes : CallCreateMainEnvironment(t, ec)
  \/ \E t \in Threads : CreateMainEnvironmentReturn(t)
  \/ \E t \in Threads, ec \in ExitCodes : CallDriver(t, ec)
  \/ \E t \in Threads : DriverReturn(t)
  \/ \E t \in Threads : CallerRelease(t)

Spec == Init /\ [][Next]_vars

TypeOK ==
  /\ proc \in {"running", "aborted", "crashed"}
  /\ mgr \in {"none", "live", "destroyed"}
  /\ ctor \in {"none", "own", "borrow"}
  /\ isolate_params_ \in Pointers("params")
  /\ isolate_ \in Pointers("isolate")
  /\ pending_tasks \in 0..MaxTasks
  /\ locker \in Threads \cup {NoThread}
  /\ \A t \in Threads : exit_code[t] \in ExitCodes

(* ---------------------------- properties ------------------------------ *)

Has(seq, x) == \E i \in 1..Len(seq) : seq[i] = x
FirstIndex(seq, x) == CHOOSE i \in 1..Len(seq) :
                        seq[i] = x /\ \A j \in 1..(i - 1) : seq[j] # x
Precedes(seq, x, y) == Has(seq, x) /\ Has(seq, y)
                       /\ FirstIndex(seq, x) < FirstIndex(seq, y)

\* some thread has completed a Run() and is outside Run() again
SomeRunReturned == \E t \in Threads : result[t] # "none" /\ pc[t] = "idle"

\* C1: a manager built by the owning constructor unregisters its isolate
\* from the platform exactly once and disposes it exactly once, at
\* destruction and not before, whatever Run() calls preceded it.
C1_OwningDestroyDisposesOnce ==
  /\ calls["UnregisterIsolate"] <= 1
  /\ calls["IsolateDispose"] <= 1
  /\ (ctor = "own" /\ mgr = "live") =>
        /\ calls["UnregisterIsolate"] = 0
        /\ calls["IsolateDispose"] = 0
        /\ isolate_state = "live"
  /\ (ctor = "own" /\ mgr = "destroyed") =>
        /\ calls["UnregisterIsolate"] = 1
        /\ calls["IsolateDispose"] = 1
        /\ isolate_state = "disposed"
        /\ ~registered

C1_Witness ==
  /\ ctor = "own" /\ mgr = "destroyed"
  /\ SomeRunReturned
  /\ calls["IsolateDispose"] = 1

\* C2: a manager built by the borrowing constructor never unregisters or
\* disposes the isolate, in construction, Run(), Dispose() or destruction:
\* the borrowed isolate is still live and registered afterwards.
C2_BorrowedNeverDisposed ==
  ctor = "borrow" =>
    /\ calls["UnregisterIsolate"] = 0
    /\ calls["IsolateDispose"] = 0
    /\ isolate_ # NULL => (isolate_state = "live" /\ registered)

C2_Witness ==
  /\ ctor = "borrow" /\ mgr = "destroyed"
  /\ isolate_state = "live"
  /\ dispose_calls >= 1
  /\ SomeRunReturned

\* C3: Dispose() on an owning manager fails its CHECK and aborts without
\* calling DrainTasks; an owning manager never drains tasks.
C3_OwningDisposeIsFatal ==
  /\ [](ctor = "own" => calls["DrainTasks"] = 0)
  /\ [][(ctor = "own" /\ dispose_calls' = dispose_calls + 1) =>
          /\ proc' = "aborted"
          /\ calls'["DrainTasks"] = calls["DrainTasks"]
          /\ pending_tasks' = pending_tasks]_vars

C3_Witness ==
  /\ ctor = "own" /\ mgr = "live"
  /\ dispose_calls = 1
  /\ proc = "aborted"

\* C4: every Dispose() on a borrowed manager, first or repeated, calls
\* DrainTasks (which empties the isolate's pending tasks) and returns; the
\* manager's members, the isolate's liveness and registration are unchanged
\* and the process keeps running.
C4_BorrowedDisposeDrainsOnly ==
  [][(ctor = "borrow" /\ dispose_calls' = dispose_calls + 1) =>
       /\ proc' = "running"
       /\ calls'["DrainTasks"] = calls["DrainTasks"] + 1
       /\ (isolate_ # NULL => pending_tasks' = 0)
       /\ UNCHANGED <<mgr, ctor, memberVars, isolate_state, registered,
                      threadVars>>]_vars

C4_Witness ==
  /\ ctor = "borrow" /\ mgr = "live" /\ proc = "running"
  /\ isolate_state = "live"
  /\ dispose_calls >= 2
  /\ calls["DrainTasks"] = dispose_calls
  /\ pending_tasks = 0

\* C5: while the manager is live, isolate_params_ is non-null and points at
\* the manager's own allocator exactly when the owning constructor built it,
\* and is null when the borrowing constructor built it; nothing done to a
\* live manager changes the parameters or the allocator.
C5_ParamsIffOwning ==
  /\ [](mgr = "live" =>
          /\ ctor \in {"own", "borrow"}
          /\ ctor = "own" =>
               /\ isolate_params_ # NULL
               /\ array_buffer_allocator_ # NULL
               /\ params_allocator = array_buffer_allocator_
          /\ ctor = "borrow" =>
               /\ isolate_params_ = NULL
               /\ array_buffer_allocator_ = NULL)
  /\ [][(mgr = "live" /\ mgr' = "live") =>
          UNCHANGED <<ctor, isolate_params_, params_allocator,
                      array_buffer_allocator_>>]_vars

C5_Witness ==
  /\ ctor = "own" /\ mgr = "live"
  /\ isolate_params_ # NULL
  /\ params_allocator = "allocator"
  /\ SomeRunReturned

\* C6: constructing an owning manager with a null snapshot handle completes
\* without a fault: once the isolate was created, the manager is built and
\* has its IsolateData.
C6_NullSnapshotCtorCompletes ==
  (ctor = "own" /\ snapshot_data_ = NULL /\ isolate_ # NULL) =>
     /\ proc # "crashed"
     /\ mgr # "none"
     /\ calls["CreateIsolateData"] = 1

\* C7: constructing a borrowed manager with a null isolate ends the process
\* during construction, before IsolateData is attached and before
\* SetIsolateMiscHandlers is called; no live manager holds a null isolate.
C7_NullIsolateBorrowAborts ==
  /\ mgr = "live" => isolate_ # NULL
  /\ (ctor = "borrow" /\ isolate_ = NULL) =>
        /\ proc # "running"
        /\ mgr = "none"
        /\ isolate_data_ = NULL
        /\ calls["SetIsolateMiscHandlers"] = 0

\* C8: when the manager holds a snapshot handle, CreateMainEnvironment
\* passes an empty context to CreateEnvironment and never calls NewContext.
C8_SnapshotPathNoNewContext ==
  snapshot_data_ # NULL =>
    /\ calls["NewContext"] = 0
    /\ \A t \in Threads :
         /\ context[t] = "none"
         /\ env_context[t] \in {"none", "empty"}
         /\ ~Has(trace[t], "NewContext")
         /\ Has(trace[t], "CreateEnvironment") => env_context[t] = "empty"

C8_Witness ==
  /\ snapshot_data_ # NULL
  /\ \E t \in Threads : env[t] # NULL /\ env_context[t] = "empty"
                        /\ pc[t] = "driver"

\* C9: when the manager holds no snapshot handle, CreateMainEnvironment
\* calls NewContext first, aborts if the context is empty, and only then
\* enters its scope and calls CreateEnvironment with that context.
C9_FreshContextBeforeEnv ==
  snapshot_data_ = NULL =>
    \A t \in Threads :
      /\ context[t] = "empty" =>
           /\ proc = "aborted"
           /\ env_context[t] = "none"
           /\ env[t] = NULL
           /\ ~Has(trace[t], "CreateEnvironment")
      /\ Has(trace[t], "CreateEnvironment") =>
           /\ context[t] = "ctx"
           /\ env_context[t] = "ctx"
           /\ Precedes(trace[t], "NewContext", "ContextScope")
           /\ Precedes(trace[t], "ContextScope", "CreateEnvironment")

C9_Witness ==
  /\ snapshot_data_ = NULL /\ mgr = "live"
  /\ \E t \in Threads : env[t] # NULL /\ env_context[t] = "ctx"
                        /\ pc[t] = "driver"

\* C10: threads calling Run() on the manager exclude each other: at most
\* one thread is between the Locker and the return of Run(), and it is the
\* thread holding the Locker.
C10_RunMutualExclusion ==
  /\ Cardinality({t \in Threads : pc[t] # "idle"}) <= 1
  /\ \A t \in Threads : pc[t] # "idle" => locker = t

C10_Witness ==
  \E t1, t2 \in Threads :
    /\ t1 # t2
    /\ result[t1] # "none" /\ pc[t1] = "idle"
    /\ pc[t2] = "spin"

IsPrefix(p, q) == Len(p) <= Len(q) /\ \A i \in 1..Len(p) : p[i] = q[i]

Failures == ExitCodes \ {kNoFailure}

\* C11 (as stated): no operation changes an exit code variable that held a
\* failure value when the operation was entered back to no-failure.
C11_ExitCodeNeverDowngraded ==
  \A t \in Threads :
    exit_code_in[t] # kNoFailure => exit_code[t] # kNoFailure

\* C11 (amended): Run() and the two-argument Run never change an exit code
\* that holds a failure value; CreateMainEnvironment(exit_code) resets the
\* exit code it is given to no-failure on entry, whatever it held.
C11_OnlyCreateMainEnvironmentResets ==
  /\ [][\A t \in Threads :
          (/\ entry[t] \in {"Run", "Driver"}
           /\ entry'[t] = entry[t]
           /\ exit_code[t] # kNoFailure) => exit_code'[t] = exit_code[t]]_vars
  /\ [](\A t \in Threads :
          (entry[t] = "CreateMainEnvironment" /\ pc[t] # "create_env")
             => exit_code[t] = kNoFailure)

C11_Witness ==
  \E t \in Threads :
    /\ entry[t] = "Driver" /\ pc[t] = "return"
    /\ exit_code_in[t] \in Failures
    /\ exit_code[t] = exit_code_in[t]

\* C12: entered with no-failure, the driver leaves in the exit code the code
\* the event loop reported, or kGenericUserError when it reported none; the
\* process is not aborted by it and Run() returns that code.
C12_ExitCodeFromLoop ==
  /\ [](\A t \in Threads :
          (pc[t] = "return" /\ exit_code_in[t] = kNoFailure
             /\ entry[t] \in {"Run", "Driver"}) =>
            /\ loop_result[t] \in MaybeExitCodes
            /\ exit_code[t] = IF loop_result[t] \in ExitCodes
                                THEN loop_result[t]
                                ELSE kGenericUserError)
  /\ [][\A t \in Threads :
          /\ (pc[t] \in {"driver", "spin"} /\ pc'[t] # pc[t])
                => proc' = "running"
          /\ (pc[t] = "return" /\ entry[t] = "Run" /\ pc'[t] = "idle")
                => (result'[t] = exit_code[t] /\ proc' = "running")]_vars

C12_Witness ==
  \E t \in Threads :
    /\ entry[t] = "Run" /\ pc[t] = "return" /\ proc = "running"
    /\ loop_result[t] = Nothing
    /\ exit_code[t] = kGenericUserError

\* C13: at most one environment created by the manager is live at a time;
\* whoever holds one holds the Locker, and a Run() frees its environment
\* before it releases the Locker, whatever exit code it returns.
C13_AtMostOneLiveEnv ==
  /\ Cardinality({t \in Threads : env[t] # NULL}) <= 1
  /\ \A t \in Threads :
       /\ env[t] # NULL => (locker = t /\ pc[t] # "idle")
       /\ Has(trace[t], "Unlock") =>
            /\ Precedes(trace[t], "Locker", "CreateEnvironment")
            /\ Precedes(trace[t], "CreateEnvironment", "FreeEnvironment")
            /\ Precedes(trace[t], "FreeEnvironment", "Unlock")

C13_Witness ==
  \E t1, t2 \in Threads :
    /\ t1 # t2
    /\ pc[t1] = "idle" /\ result[t1] \in Failures /\ env[t1] = NULL
    /\ entry[t2] = "Run" /\ env[t2] # NULL

\* C14: inside Run(), a null environment from CreateMainEnvironment stops
\* the thread at CHECK_NOT_NULL(env): LoadEnvironment and the event loop are
\* never started with a null environment and Run() returns nothing.
C14_NullEnvIsFatal ==
  /\ [](\A t \in Threads :
          (entry[t] = "Run" /\ pc[t] \in {"driver", "spin", "return"})
             => env[t] # NULL)
  /\ [][\A t \in Threads :
          (entry[t] = "Run" /\ pc[t] = "check_env" /\ env[t] = NULL) =>
             /\ pc'[t] = "check_env"
             /\ result'[t] = "none"
             /\ calls'["LoadEnvironment"] = calls["LoadEnvironment"]
             /\ calls'["SpinEventLoopInternal"] =
                  calls["SpinEventLoopInternal"]]_vars

C14_Witness ==
  /\ proc = "aborted"
  /\ \E t \in Threads :
       /\ entry[t] = "Run" /\ pc[t] = "check_env"
       /\ env[t] = NULL /\ env_context[t] = "empty"
       /\ result[t] = "none"

\* C15: when NewIsolate returns null in the owning constructor the process
\* aborts there: IsolateData is never created and no manager is live.
C15_NullNewIsolateAborts ==
  /\ (ctor = "own" /\ isolate_ = NULL) =>
        /\ proc = "aborted"
        /\ mgr = "none"
        /\ isolate_data_ = NULL
        /\ calls["CreateIsolateData"] = 0
  /\ (ctor = "own" /\ mgr = "live") => isolate_ # NULL

C15_Witness ==
  /\ ctor = "own" /\ isolate_ = NULL
  /\ calls["NewIsolate"] = 1
  /\ proc = "aborted"

RunOrderSnapshot ==
  <<"Locker", "IsolateScope", "HandleScope", "CreateMainEnvironment",
    "CreateEnvironment", "EnvContextScope", "LoadEnvironment",
    "SpinEventLoopInternal", "FreeEnvironment", "Unlock">>

RunOrderFresh ==
  <<"Locker", "IsolateScope", "HandleScope", "CreateMainEnvironment",
    "NewContext", "ContextScope", "CreateEnvironment", "EnvContextScope",
    "LoadEnvironment", "SpinEventLoopInternal", "FreeEnvironment", "Unlock">>

\* the steps recorded for thread t are those of a Run() call
IsRunTrace(t) == entry[t] = "Run" \/ Has(trace[t], "Locker")

\* C16: the steps of every Run() come in this order: Locker, isolate scope,
\* creation of the environment, the environment's context scope,
\* LoadEnvironment, the event loop, return.
C16_RunStepOrder ==
  \A t \in Threads :
    IsRunTrace(t) =>
      /\ IsPrefix(trace[t], RunOrderSnapshot)
           \/ IsPrefix(trace[t], RunOrderFresh)
      /\ (entry[t] = "Run" /\ Has(trace[t], "CreateEnvironment"))
            => locker = t

C16_Witness ==
  \E t \in Threads :
    /\ pc[t] = "idle" /\ result[t] = kNoFailure
    /\ trace[t] = RunOrderFresh

\* C17: the destructor of an owning manager unregisters the isolate, then
\* disposes it, and only then are the allocator and the CreateParams
\* released; they are alive whenever the owned isolate is.
C17_AllocatorOutlivesIsolate ==
  /\ (ctor = "own" /\ mgr = "destroyed") =>
        /\ Precedes(dtor_trace, "UnregisterIsolate", "IsolateDispose")
        /\ Precedes(dtor_trace, "IsolateDispose", "release_members")
  /\ (ctor = "own" /\ isolate_state = "live" /\ mgr # "none") =>
        /\ array_buffer_allocator_ # NULL
        /\ isolate_params_ # NULL

C17_Witness ==
  /\ ctor = "own" /\ mgr = "destroyed"
  /\ isolate_state = "disposed"
  /\ Len(dtor_trace) = 3
  /\ array_buffer_allocator_ = NULL

\* C18: in both constructors IsolateData is created once, when the isolate
\* already exists, and before any environment is created; nothing creates it
\* again.
C18_IsolateDataOnceAfterIsolate ==
  /\ calls["CreateIsolateData"] <= 1
  /\ calls["CreateIsolateData"] = 1 => isolate_ # NULL
  /\ mgr = "live" => (calls["CreateIsolateData"] = 1 /\ isolate_data_ # NULL)
  /\ calls["CreateEnvironment"] >= 1 => calls["CreateIsolateData"] = 1

\* C19: an environment is created from the snapshot (empty context
\* argument) exactly when the manager's isolate was restored from a
\* snapshot; a borrowed isolate always gets a fresh context.
C19_SnapshotPathsConsistent ==
  /\ \A t \in Threads :
       /\ env_context[t] # "none" =>
            (env_context[t] = "empty" <=> isolate_from_snapshot)
       /\ context[t] # "none" => ~isolate_from_snapshot
  /\ ctor = "borrow" =>
       /\ ~isolate_from_snapshot
       /\ \A t \in Threads : env_context[t] # "empty"

C19_Witness ==
  /\ isolate_from_snapshot /\ ctor = "own"
  /\ \E t \in Threads :
       env[t] # NULL /\ env_context[t] = "empty" /\ pc[t] = "spin"

\* C20: entered with an exit code other than no-failure, the two-argument
\* Run calls neither LoadEnvironment nor the event loop and leaves the exit
\* code as it was; it calls them only when entered with no-failure, and
\* LoadEnvironment before the event loop.
C20_DriverSkipsOnFailure ==
  \A t \in Threads :
    /\ (entry[t] = "Driver" /\ exit_code_in[t] # kNoFailure) =>
          /\ ~Has(trace[t], "LoadEnvironment")
          /\ ~Has(trace[t], "SpinEventLoopInternal")
          /\ loop_result[t] = "none"
          /\ exit_code[t] = exit_code_in[t]
    /\ (entry[t] = "Driver" /\ Has(trace[t], "LoadEnvironment")) =>
          exit_code_in[t] = kNoFailure
    /\ Has(trace[t], "SpinEventLoopInternal") =>
          Precedes(trace[t], "LoadEnvironment", "SpinEventLoopInternal")

C20_Witness ==
  \E t \in Threads :
    /\ entry[t] = "Driver" /\ pc[t] = "return"
    /\ exit_code_in[t] = kAbort /\ exit_code[t] = kAbort
    /\ trace[t] = <<>>
    /\ calls["LoadEnvironment"] = 0

=============================================================================
